---- MODULE Spec2Model ----
(***************************************************************************)
(* The Home screen of the to-do application (src/src/pages/Home.tsx): the  *)
(* task filter (filteredTasks), the statistics (taskStats), the completion *)
(* message (taskCompletionText) and the handlers that change the filter    *)
(* selection.  Time is a count of clock ticks since day 0, TicksPerDay     *)
(* ticks to the calendar day; dayjs values are the records of DateValues.  *)
(***************************************************************************)
EXTENDS Integers, Sequences, FiniteSets, TLC

VARIABLES
    tasks,              \* user.tasks, the task collection of the user store
    filter,             \* useState("All")
    customStart,        \* useState<Dayjs | null>(null)
    customEnd,          \* useState<Dayjs | null>(null)
    now,                \* the wall clock
    filteredTasks,      \* the memoised result of the filter pass
    filterToday,        \* the local `today` of the last filter pass
    filterEndOfWeek,    \* the local `endOfWeek` of the last filter pass
    taskStats,          \* the memoised statistics
    statsToday,         \* the local `today` of the last statistics pass
    taskCompletionText, \* the memoised completion message tier
    mountHour,          \* the local `currentHour` of the greeting memo
    timeGreeting,       \* the memoised greeting
    settings,           \* user.settings
    profile,            \* the other fields of the user (name, emojisStyle, ...)
    toast,              \* the "Progress bar hidden" toast with its Undo button is shown
    page,               \* the route: Home ("home") or AddTask ("add") is mounted
    form,               \* AddTask: open, name, description, deadline, priority, error
    attempts,           \* the calls of handleAddTask so far, and the accepted ones
    utcOffset           \* local time minus UTC, in ticks

(* the state of the Home screen, of the user store, and of the router and   *)
(* the AddTask page                                                         *)
homeVars == <<filter, customStart, customEnd, filteredTasks, filterToday,
              filterEndOfWeek, taskStats, statsToday, taskCompletionText,
              mountHour, timeGreeting>>
userVars == <<settings, profile, toast>>
addVars == <<page, form, attempts, utcOffset>>

vars == <<tasks, now, homeVars, userVars, addVars>>

----------------------------------------------------------------------------
(* Bounds *)

MaxTasks == 2
MaxDay == 2
TicksPerDay == 2
FirstWeekday == 5

MaxAttempts == 2
MaxTotal == 100

(* dayjs: a week has seven days and, in the default locale, starts on Sunday *)
DaysPerWeek == 7

(* Date: a day has twenty-four hours *)
HoursPerDay == 24

Instants == 0..((MaxDay + 1) * TicksPerDay - 1)

----------------------------------------------------------------------------
(* Dates: a Date / Dayjs value is absent (undefined, null), invalid (its    *)
(* timestamp is NaN) or an instant.                                        *)

Absent == [kind |-> "absent", t |-> 0]
InvalidDate == [kind |-> "invalid", t |-> 0]
At(t) == [kind |-> "date", t |-> t]

DateValues == {Absent, InvalidDate} \cup {At(t) : t \in Instants}

(* JavaScript truthiness of `task.deadline`, `customStart`, `customEnd`:    *)
(* undefined and null are falsy, every Date or Dayjs object is truthy.      *)
Truthy(d) == d.kind # "absent"

(* dayjs(x): the Dayjs of the timestamp of x, invalid when x is an invalid  *)
(* Date; dayjs(undefined) would be the current time, but every call site    *)
(* guards it with the truthiness of x.                                      *)
dayjs(d) == d

(* a < b and a <= b on the timestamps: false as soon as one of them is NaN *)
Lt(a, b) == a.kind = "date" /\ b.kind = "date" /\ a.t < b.t
Le(a, b) == a.kind = "date" /\ b.kind = "date" /\ a.t <= b.t

DayOf(t) == t \div TicksPerDay
Weekday(day) == (day + FirstWeekday) % DaysPerWeek

startOfDay(d) ==
    IF d.kind = "date" THEN At(DayOf(d.t) * TicksPerDay) ELSE d

endOfDay(d) ==
    IF d.kind = "date" THEN At(DayOf(d.t) * TicksPerDay + TicksPerDay - 1) ELSE d

(* endOf("week"), weekStart = 0: the last instant of the Saturday *)
endOfWeek(d) ==
    IF d.kind = "date"
    THEN At((DayOf(d.t) + (DaysPerWeek - 1) - Weekday(DayOf(d.t))) * TicksPerDay
            + TicksPerDay - 1)
    ELSE d

(* this.isSame(that, "day") *)
isSame(this, that) == Le(startOfDay(this), that) /\ Le(that, endOfDay(this))

(* this.isBefore(that, "day"), this.isAfter(that, "day") *)
isBeforeDay(this, that) == Lt(endOfDay(this), that)
isAfterDay(this, that) == Lt(that, startOfDay(this))

(* this.isBetween(a, b, "day", "[]") of the isBetween plugin *)
isBetween(this, a, b) ==
    \/ (~isBeforeDay(this, a) /\ ~isAfterDay(this, b))
    \/ (~isAfterDay(this, a) /\ ~isBeforeDay(this, b))

----------------------------------------------------------------------------
(* Tasks *)

Task == [name : 1..MaxTasks, deadline : DateValues, done : BOOLEAN]

RECURSIVE SeqsUpTo(_, _)
SeqsUpTo(S, n) ==
    IF n = 0 THEN {<<>>}
    ELSE LET shorter == SeqsUpTo(S, n - 1)
         IN shorter \cup {Append(s, x) : s \in {q \in shorter : Len(q) = n - 1}, x \in S}

(* the collections the user store can hold; the tasks carry distinct names, *)
(* so that the order of a result can be told                                *)
TaskCollections ==
    {s \in SeqsUpTo(Task, MaxTasks) : \A i \in 1..Len(s) : s[i].name = i}

FilterOptions == {"All", "Today", "This Week", "Custom"}

----------------------------------------------------------------------------
(* The filter pass.  t1 and t2 are the two readings of the clock, by the    *)
(* two calls of dayjs() at the head of the pass.                            *)

(* the callback of tasks.filter in Today mode *)
TodayCallback_exactInstant(task, today) ==
    IF Truthy(task.deadline) THEN dayjs(task.deadline) = today ELSE FALSE

TodayCallback(task, today) ==
    IF Truthy(task.deadline) THEN isSame(dayjs(task.deadline), today) ELSE FALSE

(* the callback of tasks.filter in This Week mode *)
ThisWeekCallback(task, today, endOfWeek_) ==
    IF Truthy(task.deadline)
    THEN isBetween(dayjs(task.deadline), today, endOfWeek_) ELSE FALSE

(* the callback of tasks.filter in Custom mode *)
CustomCallback(task, customStart_, customEnd_) ==
    IF Truthy(task.deadline)
    THEN isBetween(dayjs(task.deadline), customStart_, customEnd_) ELSE FALSE

computeFilteredTasks_emptyOnIncomplete(tasks_, filter_, customStart_, customEnd_, t1, t2) ==
    LET today == startOfDay(At(t1))
        endOfWeek_ == endOfWeek(At(t2))
    IN CASE filter_ = "Today" ->
              SelectSeq(tasks_, LAMBDA task : TodayCallback(task, today))
         [] filter_ = "This Week" ->
              SelectSeq(tasks_, LAMBDA task : ThisWeekCallback(task, today, endOfWeek_))
         [] filter_ = "Custom" ->
              IF Truthy(customStart_) /\ Truthy(customEnd_)
              THEN SelectSeq(tasks_, LAMBDA task :
                       CustomCallback(task, customStart_, customEnd_))
              ELSE <<>>
         [] OTHER -> tasks_

computeFilteredTasks_rangeInEveryMode(tasks_, filter_, customStart_, customEnd_, t1, t2) ==
    LET today == startOfDay(At(t1))
        endOfWeek_ == endOfWeek(At(t2))
    IN CASE filter_ = "Today" ->
              SelectSeq(tasks_, LAMBDA task : TodayCallback(task, today))
         [] filter_ = "This Week" ->
              SelectSeq(tasks_, LAMBDA task : ThisWeekCallback(task, today, endOfWeek_))
         [] OTHER ->
              IF Truthy(customStart_) /\ Truthy(customEnd_)
              THEN SelectSeq(tasks_, LAMBDA task :
                       CustomCallback(task, customStart_, customEnd_))
              ELSE tasks_

computeFilteredTasks(tasks_, filter_, customStart_, customEnd_, t1, t2) ==
    LET today == startOfDay(At(t1))
        endOfWeek_ == endOfWeek(At(t2))
    IN CASE filter_ = "Today" ->
              SelectSeq(tasks_, LAMBDA task : TodayCallback(task, today))
         [] filter_ = "This Week" ->
              SelectSeq(tasks_, LAMBDA task : ThisWeekCallback(task, today, endOfWeek_))
         [] filter_ = "Custom" ->
              IF Truthy(customStart_) /\ Truthy(customEnd_)
              THEN SelectSeq(tasks_, LAMBDA task :
                       CustomCallback(task, customStart_, customEnd_))
              ELSE tasks_
         [] OTHER -> tasks_

----------------------------------------------------------------------------
(* The statistics pass.  A percentage is the exact quotient num / den; the  *)
(* thresholds 25, 50, 75 and 100 are exact in floating point as well.       *)

Percentage(num, den) == [num |-> num, den |-> den]
PctEq(p, k) == p.num = k * p.den
PctGe(p, k) == p.num >= k * p.den

completedPercentage_fraction(completedCount, length) ==
    IF length > 0 THEN Percentage(completedCount, length) ELSE Percentage(0, 1)

completedPercentage(completedCount, length) ==
    IF length > 0 THEN Percentage(completedCount * 100, length) ELSE Percentage(0, 1)

(* the callback of tasks.filter for the tasks due today *)
DueTodayCallback_doneIncluded(task, today) ==
    Truthy(task.deadline) /\ isSame(dayjs(task.deadline), today)

DueTodayCallback(task, today) ==
    Truthy(task.deadline) /\ isSame(dayjs(task.deadline), today) /\ ~task.done

computeTaskStats(tasks_, t) ==
    LET completedCount == Len(SelectSeq(tasks_, LAMBDA task : task.done))
        today == startOfDay(At(t))
        dueTodayTasks == SelectSeq(tasks_, LAMBDA task : DueTodayCallback(task, today))
    IN [completedTasksCount |-> completedCount,
        completedTaskPercentage |-> completedPercentage(completedCount, Len(tasks_)),
        tasksWithDeadlineTodayCount |-> Len(dueTodayTasks),
        tasksDueTodayNames |-> [i \in 1..Len(dueTodayTasks) |-> dueTodayTasks[i].name]]

computeTaskCompletionText_strictThresholds(percentage, totalTasks) ==
    IF totalTasks = 0 THEN "no tasks"
    ELSE IF PctEq(percentage, 100) THEN "all completed"
    ELSE IF PctGe(percentage, 75) /\ ~PctEq(percentage, 75) THEN "almost there"
    ELSE IF PctGe(percentage, 50) /\ ~PctEq(percentage, 50) THEN "halfway"
    ELSE IF PctGe(percentage, 25) /\ ~PctEq(percentage, 25) THEN "good progress"
    ELSE "just getting started"

computeTaskCompletionText_zeroPercentFirst(percentage, totalTasks) ==
    IF PctEq(percentage, 0) THEN "no tasks"
    ELSE IF PctEq(percentage, 100) THEN "all completed"
    ELSE IF PctGe(percentage, 75) THEN "almost there"
    ELSE IF PctGe(percentage, 50) THEN "halfway"
    ELSE IF PctGe(percentage, 25) THEN "good progress"
    ELSE "just getting started"

computeTaskCompletionText(percentage, totalTasks) ==
    IF totalTasks = 0 THEN "no tasks"
    ELSE IF PctEq(percentage, 100) THEN "all completed"
    ELSE IF PctGe(percentage, 75) THEN "almost there"
    ELSE IF PctGe(percentage, 50) THEN "halfway"
    ELSE IF PctGe(percentage, 25) THEN "good progress"
    ELSE "just getting started"

----------------------------------------------------------------------------
(* The greeting.  A tick of the day spans several hours of the local clock. *)

TickOfHour(h) == (h * TicksPerDay) \div HoursPerDay
HoursOfTick(k) == {h \in 0..(HoursPerDay - 1) : TickOfHour(h) = k}
Hours(t) == HoursOfTick(t % TicksPerDay)
FirstHour(t) == CHOOSE h \in Hours(t) : \A g \in Hours(t) : h <= g

computeTimeGreeting_threeTiers(currentHour) ==
    IF currentHour >= 5 /\ currentHour < 12 THEN "Good morning"
    ELSE IF currentHour >= 12 /\ currentHour < 18 THEN "Good afternoon"
    ELSE "Good evening"

computeTimeGreeting(currentHour) ==
    IF currentHour >= 5 /\ currentHour < 12 THEN "Good morning"
    ELSE IF currentHour >= 12 /\ currentHour < 17 THEN "Good afternoon"
    ELSE IF currentHour >= 17 /\ currentHour < 21 THEN "Good evening"
    ELSE "Good night"

----------------------------------------------------------------------------
(* The user store *)

Settings == [showProgressBar : BOOLEAN, enableGlow : BOOLEAN]

(* the settings and the profile of a user whose screen only filters *)
FixedSettings == [showProgressBar |-> TRUE, enableGlow |-> TRUE]

Profiles == [name : {"null", "name"}]
FixedProfile == [name |-> "null"]

User(tasks_, settings_, profile_) ==
    [tasks |-> tasks_, settings |-> settings_, profile |-> profile_]

(* updateShowProgressBar: the updater handed to setUser, applied to the     *)
(* user as it is when the update is processed                               *)
updateShowProgressBar_settingsReplaced(prevUser, value) ==
    [prevUser EXCEPT !.settings = [showProgressBar |-> value, enableGlow |-> FALSE]]

updateShowProgressBar(prevUser, value) ==
    [prevUser EXCEPT !.settings = [prevUser.settings EXCEPT !.showProgressBar = value]]

----------------------------------------------------------------------------
(* The AddTask dialog.  A string is its content without the surrounding     *)
(* white space (len characters) and the white space around it (pad         *)
(* characters); a date string names a calendar day.                         *)

Str(pad, len) == [pad |-> pad, len |-> len]
EmptyString == Str(0, 0)
trim(s) == Str(0, s.len)
length(s) == s.pad + s.len

NoDateString == [kind |-> "empty", day |-> 0]
DateString(d) == [kind |-> "day", day |-> d]

UndefinedString == [undefined |-> TRUE]

Priorities == {"Critical", "High", "Medium", "Low"}

MaxNameLength == 100
MaxDescriptionLength == 500

EmptyForm ==
    [open |-> FALSE, name |-> EmptyString, description |-> EmptyString,
     deadline |-> NoDateString, priority |-> "Medium", error |-> ""]

NoAttempts(initialCount) == [initial |-> initialCount, made |-> 0, accepted |-> 0]

----------------------------------------------------------------------------
(* TaskDetails: the relative label of a date *)

(* Math.ceil(a / b) for b > 0 *)
ceil(a, b) == -((-a) \div b)

(* formatDate: the number of days is the difference of the two timestamps  *)
(* in days, rounded up; of an invalid Date it is NaN, which fails every     *)
(* comparison and falls to the last branch                                  *)
formatDate(date, now_) ==
    IF date.kind # "date" THEN [label |-> "(NaN days ago)", days |-> 0]
    ELSE LET diffTime == date.t - now_
             diffDays == ceil(diffTime, TicksPerDay)
         IN  IF diffDays = 0 THEN [label |-> "(Today)", days |-> diffDays]
             ELSE IF diffDays = 1 THEN [label |-> "(Tomorrow)", days |-> diffDays]
             ELSE IF diffDays = -1 THEN [label |-> "(Yesterday)", days |-> diffDays]
             ELSE IF diffDays > 0 THEN [label |-> "(in N days)", days |-> diffDays]
             ELSE [label |-> "(N days ago)", days |-> -diffDays]

----------------------------------------------------------------------------
(* The custom range message of the Home screen *)

(* Dayjs.isBefore without a unit compares the two timestamps *)
isBefore(this, that) == Lt(this, that)

isValidCustomRange ==
    Truthy(customStart) /\ Truthy(customEnd) /\ isBefore(customStart, customEnd)

(* "End date must be after start date" is on the screen *)
RangeMessageShown ==
    /\ filter = "Custom"
    /\ Truthy(customStart) /\ Truthy(customEnd) /\ ~isValidCustomRange

----------------------------------------------------------------------------
(* The screen.  A render that follows a state update recomputes the memos   *)
(* whose dependencies changed.  Under Spec the two clock readings of a      *)
(* filter pass are one and the same reading.                                *)

(* the filter memo is recomputed: dependencies [filter, tasks, customStart, *)
(* customEnd]                                                               *)
RenderFilter ==
    /\ filteredTasks' =
          computeFilteredTasks(tasks', filter', customStart', customEnd', now, now)
    /\ filterToday' = startOfDay(At(now))
    /\ filterEndOfWeek' = endOfWeek(At(now))
    /\ now' = now

Init ==
    /\ tasks \in TaskCollections
    /\ filter = "All"
    /\ customStart = Absent
    /\ customEnd = Absent
    /\ now \in Instants
    /\ filteredTasks = computeFilteredTasks(tasks, filter, customStart, customEnd, now, now)
    /\ filterToday = startOfDay(At(now))
    /\ filterEndOfWeek = endOfWeek(At(now))
    /\ taskStats = computeTaskStats(tasks, now)
    /\ statsToday = startOfDay(At(now))
    /\ taskCompletionText =
          computeTaskCompletionText(taskStats.completedTaskPercentage, Len(tasks))
    /\ mountHour = FirstHour(now)
    /\ timeGreeting = computeTimeGreeting(mountHour)
    /\ settings = FixedSettings
    /\ profile = FixedProfile
    /\ toast = FALSE
    /\ page = "home"
    /\ form = EmptyForm
    /\ attempts = NoAttempts(Len(tasks))
    /\ utcOffset = 0

(* ToggleButtonGroup, exclusive: a click on the selected button reports null *)
handleFilterChange(button) ==
    LET newFilter == IF button = filter THEN "null" ELSE button
    IN /\ newFilter # "null"
       /\ filter' = newFilter
       /\ IF newFilter # "Custom"
          THEN customStart' = Absent /\ customEnd' = Absent
          ELSE UNCHANGED <<customStart, customEnd>>
       /\ UNCHANGED <<tasks, taskStats, statsToday, taskCompletionText>>
       /\ UNCHANGED <<mountHour, timeGreeting, userVars, addVars>>
       /\ RenderFilter

(* the Start Date picker, rendered in Custom mode only *)
setCustomStart(newVal) ==
    /\ filter = "Custom"
    /\ ~(newVal = Absent /\ customStart = Absent)
    /\ customStart' = newVal
    /\ UNCHANGED <<tasks, filter, customEnd, taskStats, statsToday, taskCompletionText>>
    /\ UNCHANGED <<mountHour, timeGreeting, userVars, addVars>>
    /\ RenderFilter

(* the End Date picker, rendered in Custom mode only *)
setCustomEnd(newVal) ==
    /\ filter = "Custom"
    /\ ~(newVal = Absent /\ customEnd = Absent)
    /\ customEnd' = newVal
    /\ UNCHANGED <<tasks, filter, customStart, taskStats, statsToday, taskCompletionText>>
    /\ UNCHANGED <<mountHour, timeGreeting, userVars, addVars>>
    /\ RenderFilter

(* the "View All Tasks" button of the empty state; setFilter with the       *)
(* current value is no update                                               *)
ViewAllTasks ==
    /\ Len(filteredTasks) = 0 /\ Len(tasks) > 0
    /\ filter # "All"
    /\ filter' = "All"
    /\ UNCHANGED <<tasks, customStart, customEnd, taskStats, statsToday, taskCompletionText>>
    /\ UNCHANGED <<mountHour, timeGreeting, userVars, addVars>>
    /\ RenderFilter

(* the wall clock advances; no state of the screen depends on it *)
Tick ==
    /\ now + 1 \in Instants
    /\ now' = now + 1
    /\ UNCHANGED <<tasks, homeVars, userVars, addVars>>

(* the values a date picker reports: null or a date at some time of day *)
PickerValues == {Absent} \cup {At(t) : t \in Instants}

Next ==
    \/ \E button \in FilterOptions : handleFilterChange(button)
    \/ \E newVal \in PickerValues : setCustomStart(newVal)
    \/ \E newVal \in PickerValues : setCustomEnd(newVal)
    \/ ViewAllTasks
    \/ Tick

Spec == Init /\ [][Next]_vars

----------------------------------------------------------------------------
(* What the properties below speak of *)

HasDay(task) == task.deadline.kind = "date"
DeadlineDay(task) == DayOf(task.deadline.t)

(* the tasks of s due on a calendar day of lo..hi, in the order of s *)
DueOnDays(s, lo, hi) ==
    SelectSeq(s, LAMBDA task :
        HasDay(task) /\ lo <= DeadlineDay(task) /\ DeadlineDay(task) <= hi)

(* the Saturday of the week of a day *)
LastDayOfWeek(day) == day + (DaysPerWeek - 1) - Weekday(day)

Listed(task, s) == \E j \in 1..Len(s) : s[j] = task

DoneCount(s) == Cardinality({i \in 1..Len(s) : s[i].done})

BothBounds == customStart.kind = "date" /\ customEnd.kind = "date"

(* the filter is one that selects by date *)
DateFilterActive ==
    \/ filter \in {"Today", "This Week"}
    \/ (filter = "Custom" /\ Truthy(customStart) /\ Truthy(customEnd))

----------------------------------------------------------------------------
C2_ReversedRangeIsEmpty ==
    (filter = "Custom" /\ BothBounds /\ DayOf(customStart.t) > DayOf(customEnd.t))
        => \A j \in 1..Len(filteredTasks) : ~HasDay(filteredTasks[j])

(* C3: in Custom mode with both bounds present and the start day not after  *)
(* the end day, the filter result is exactly the tasks due on a day from    *)
(* the start day to the end day, in their order.                            *)
C3_RangeIsExact ==
    (filter = "Custom" /\ BothBounds /\ DayOf(customStart.t) <= DayOf(customEnd.t))
        => filteredTasks = DueOnDays(tasks, DayOf(customStart.t), DayOf(customEnd.t))

(* C3 holds of the collections in which every deadline present is parseable *)
RangeIsExactOfParseable ==
    (\A i \in 1..Len(tasks) : tasks[i].deadline # InvalidDate) => C3_RangeIsExact

(* C4: in Today mode the filter result is exactly the tasks due on the      *)
(* calendar day of the filter pass, at any time of that day, in their order.*)
C4_TodayIsExact ==
    filter = "Today"
        => filteredTasks = DueOnDays(tasks, DayOf(filterToday.t), DayOf(filterToday.t))

C4_Witness ==
    /\ filter = "Today"
    /\ Len(tasks) = 2
    /\ HasDay(tasks[1]) /\ DeadlineDay(tasks[1]) # DayOf(filterToday.t)
    /\ tasks[2].deadline = endOfDay(filterToday)
    /\ filteredTasks = <<tasks[2]>>

(* C5: in This Week mode the filter result is exactly the tasks due on a    *)
(* day from today to the last day of the week of today, in their order.     *)
C5_ThisWeekIsExact ==
    filter = "This Week"
        => filteredTasks = DueOnDays(tasks, DayOf(filterToday.t),
                                     LastDayOfWeek(DayOf(filterToday.t)))

(* C5 holds of the collections in which every deadline present is parseable *)
ThisWeekIsExactOfParseable ==
    (\A i \in 1..Len(tasks) : tasks[i].deadline # InvalidDate) => C5_ThisWeekIsExact

(* C6: a task whose deadline is missing or unparseable is in no result of a *)
(* filter by date and not in the due-today list.                            *)
C6_NoDeadlineNeverListed ==
    \A i \in 1..Len(tasks) :
        ~HasDay(tasks[i]) =>
            /\ DateFilterActive => ~Listed(tasks[i], filteredTasks)
            /\ \A j \in 1..taskStats.tasksWithDeadlineTodayCount :
                   taskStats.tasksDueTodayNames[j] # tasks[i].name

(* C7: in All mode the filter result is the task collection, in its order,  *)
(* whatever the custom bounds hold.                                         *)
C7_AllReturnsAll ==
    filter = "All" => filteredTasks = tasks

C7_Witness ==
    /\ filter = "All"
    /\ BothBounds
    /\ Len(tasks) = 2
    /\ DueOnDays(tasks, DayOf(customStart.t), DayOf(customEnd.t)) = <<>>
    /\ filteredTasks = tasks

(* C8: the completion percentage is completedCount / totalCount * 100 for a *)
(* non-empty collection and 0 for the empty one, with no division by zero;  *)
(* it lies in 0..100 and is 100 exactly when the collection is non-empty    *)
(* and every task is done.                                                  *)
C8_PercentageIsExact ==
    LET p == taskStats.completedTaskPercentage
        n == Len(tasks)
    IN /\ p.den > 0
       /\ n = 0 => PctEq(p, 0)
       /\ n > 0 => p.num * n = DoneCount(tasks) * 100 * p.den
       /\ PctGe(p, 0) /\ p.num <= 100 * p.den
       /\ PctEq(p, 100) <=> (n > 0 /\ DoneCount(tasks) = n)

C8_Witness ==
    /\ Len(tasks) = 2
    /\ DoneCount(tasks) = 1
    /\ PctEq(taskStats.completedTaskPercentage, 50)

(* C9: the completed count is the number of done tasks, and the due-today   *)
(* list is exactly the tasks due on the calendar day of the statistics pass *)
(* that are not done, in their order.                                       *)
C9_StatsAreExact ==
    LET today == DayOf(statsToday.t)
        due == SelectSeq(tasks, LAMBDA task :
                   HasDay(task) /\ DeadlineDay(task) = today /\ ~task.done)
    IN /\ taskStats.completedTasksCount = DoneCount(tasks)
       /\ taskStats.tasksWithDeadlineTodayCount = Len(due)
       /\ taskStats.tasksDueTodayNames = [i \in 1..Len(due) |-> due[i].name]

C9_Witness ==
    /\ Len(tasks) = 2
    /\ HasDay(tasks[1]) /\ DeadlineDay(tasks[1]) = DayOf(statsToday.t) /\ tasks[1].done
    /\ tasks[2].deadline = endOfDay(statsToday) /\ ~tasks[2].done
    /\ taskStats.completedTasksCount = 1
    /\ taskStats.tasksDueTodayNames = <<2>>

(* the percentages a collection can have *)
Percentages == {completedPercentage(c, n) : c \in 0..MaxTasks, n \in 0..MaxTasks}

----------------------------------------------------------------------------
(* C17: whenever the filter mode is not Custom, both custom bounds are      *)
(* absent, after any sequence of toggle clicks, picker changes and "View    *)
(* All Tasks" clicks.  "View All Tasks" sets the mode to All and leaves the *)
(* two bounds as they are.                                                  *)
C17_BoundsAbsentOutsideCustom ==
    filter # "Custom" => (customStart = Absent /\ customEnd = Absent)

(* C18: the message "End date must be after start date" is shown exactly    *)
(* when both bounds are present and the calendar day of the start is        *)
(* strictly after the calendar day of the end; it is not shown when the     *)
(* two bounds are the same day.  The code compares the two timestamps and   *)
(* shows the message whenever the start is not strictly before the end.     *)
C18_MessageIffStartDayAfterEndDay ==
    RangeMessageShown <=>
        (/\ filter = "Custom" /\ BothBounds
         /\ DayOf(customStart.t) > DayOf(customEnd.t))

(* C19: TaskDetails labels a date "(Today)" exactly when it is on the       *)
(* current calendar day, "(Tomorrow)" exactly when it is on the next one    *)
(* and "(Yesterday)" exactly when it is on the previous one, at every time  *)
(* of day.  The code rounds the difference of the timestamps up to days.    *)
C19_LabelIsTheCalendarDay ==
    \A i \in 1..Len(tasks) :
        HasDay(tasks[i]) =>
            LET label == formatDate(tasks[i].deadline, now).label
                ahead == DeadlineDay(tasks[i]) - DayOf(now)
            IN  /\ (label = "(Today)" <=> ahead = 0)
                /\ (label = "(Tomorrow)" <=> ahead = 1)
                /\ (label = "(Yesterday)" <=> ahead = -1)

----------------------------------------------------------------------------
(* The filter pass in real time.  The memo reads the clock twice, once for  *)
(* `today` and once for `endOfWeek`; the clock may advance between the two  *)
(* readings.                                                                *)

ClockAfter(t) == {t2 \in Instants : t <= t2 /\ t2 <= t + 1}

RenderFilterAt(t2) ==
    /\ filteredTasks' =
          computeFilteredTasks(tasks', filter', customStart', customEnd', now, t2)
    /\ filterToday' = startOfDay(At(now))
    /\ filterEndOfWeek' = endOfWeek(At(t2))
    /\ now' = t2

handleFilterChangeAt(button, t2) ==
    LET newFilter == IF button = filter THEN "null" ELSE button
    IN /\ newFilter # "null"
       /\ filter' = newFilter
       /\ IF newFilter # "Custom"
          THEN customStart' = Absent /\ customEnd' = Absent
          ELSE UNCHANGED <<customStart, customEnd>>
       /\ UNCHANGED <<tasks, taskStats, statsToday, taskCompletionText>>
       /\ UNCHANGED <<mountHour, timeGreeting, userVars, addVars>>
       /\ RenderFilterAt(t2)

RaceNext ==
    \/ \E button \in FilterOptions, t2 \in ClockAfter(now) :
          handleFilterChangeAt(button, t2)
    \/ Tick

RaceSpec == Init /\ [][RaceNext]_vars

(* C13: a filter pass observes one fixed "now": the start-of-today bound    *)
(* and the end-of-week bound of the pass come from one clock reading, and   *)
(* the list is the one that this reading gives, also when the clock crosses *)
(* midnight or the week boundary during the pass.                           *)
C13_OneClockReadingPerPass ==
    \E t \in Instants :
        /\ filterToday = startOfDay(At(t))
        /\ filterEndOfWeek = endOfWeek(At(t))
        /\ filteredTasks =
              computeFilteredTasks(tasks, filter, customStart, customEnd, t, t)

----------------------------------------------------------------------------
(* The AddTask page (src/src/pages/AddTask.tsx) *)

(* new Date("YYYY-MM-DD"): midnight of the day in UTC, which the local      *)
(* clock shows utcOffset later                                              *)
parseDateOnly(dateString, offset) == At(dateString.day * TicksPerDay + offset)

(* new Date("YYYY-MM-DDT23:59:59"): the last second of the day, local time  *)
parseEndOfDay(dateString) == At(dateString.day * TicksPerDay + (TicksPerDay - 1))

(* new Date().toISOString().split("T")[0]: the calendar day in UTC *)
toISODate(t, offset) == DateString((t - offset) \div TicksPerDay)

(* selectedDate < today, today being local midnight *)
deadlineInThePast(deadline_, now_, offset) ==
    Lt(parseDateOnly(deadline_, offset), startOfDay(At(now_)))

Rejected(message) == [valid |-> FALSE, error |-> message]

validateForm_lengthsFirst(form_, now_, offset) ==
    IF length(trim(form_.name)) > MaxNameLength
    THEN Rejected("Task name must be less than 100 characters")
    ELSE IF length(form_.description) > MaxDescriptionLength
    THEN Rejected("Description must be less than 500 characters")
    ELSE IF length(trim(form_.name)) = 0
    THEN Rejected("Task name is required")
    ELSE IF form_.deadline.kind = "day" /\ deadlineInThePast(form_.deadline, now_, offset)
    THEN Rejected("Deadline cannot be in the past")
    ELSE [valid |-> TRUE, error |-> ""]

validateForm(form_, now_, offset) ==
    IF length(trim(form_.name)) = 0
    THEN Rejected("Task name is required")
    ELSE IF length(trim(form_.name)) > MaxNameLength
    THEN Rejected("Task name must be less than 100 characters")
    ELSE IF length(form_.description) > MaxDescriptionLength
    THEN Rejected("Description must be less than 500 characters")
    ELSE IF form_.deadline.kind = "day" /\ deadlineInThePast(form_.deadline, now_, offset)
    THEN Rejected("Deadline cannot be in the past")
    ELSE [valid |-> TRUE, error |-> ""]

newTask(form_, now_) ==
    [name |-> trim(form_.name),
     description |-> IF length(trim(form_.description)) = 0
                     THEN UndefinedString ELSE trim(form_.description),
     date |-> At(now_),
     deadline |-> IF form_.deadline.kind = "day"
                  THEN parseEndOfDay(form_.deadline) ELSE Absent,
     done |-> FALSE,
     pinned |-> FALSE,
     priority |-> form_.priority]

getMinDate == toISODate(now, utcOffset)

(* the page renders from the user store only *)
AddPageFrame == UNCHANGED <<now, homeVars, userVars, page, utcOffset>>

OpenDialog ==
    /\ page = "add" /\ ~form.open
    /\ form' = [form EXCEPT !.open = TRUE]
    /\ UNCHANGED <<tasks, attempts>>
    /\ AddPageFrame

setName(value) ==
    /\ page = "add" /\ form.open /\ value # form.name
    /\ form' = [form EXCEPT !.name = value]
    /\ UNCHANGED <<tasks, attempts>>
    /\ AddPageFrame

setDescription(value) ==
    /\ page = "add" /\ form.open /\ value # form.description
    /\ form' = [form EXCEPT !.description = value]
    /\ UNCHANGED <<tasks, attempts>>
    /\ AddPageFrame

setDeadline(value) ==
    /\ page = "add" /\ form.open /\ value # form.deadline
    /\ form' = [form EXCEPT !.deadline = value]
    /\ UNCHANGED <<tasks, attempts>>
    /\ AddPageFrame

setPriority(value) ==
    /\ page = "add" /\ form.open /\ value # form.priority
    /\ form' = [form EXCEPT !.priority = value]
    /\ UNCHANGED <<tasks, attempts>>
    /\ AddPageFrame

(* Cancel, Escape and a click outside the dialog *)
handleClose ==
    /\ page = "add" /\ form.open
    /\ form' = EmptyForm
    /\ UNCHANGED <<tasks, attempts>>
    /\ AddPageFrame

(* the "Add Task" button (enabled when the trimmed name is not empty) and   *)
(* Ctrl+Enter in the dialog                                                 *)
handleAddTask ==
    /\ page = "add" /\ form.open
    /\ attempts.made < MaxAttempts
    /\ LET cleared == [form EXCEPT !.error = ""]
           checked == validateForm(cleared, now, utcOffset)
       IN IF ~checked.valid
          THEN /\ form' = [cleared EXCEPT !.error = checked.error]
               /\ tasks' = tasks
               /\ attempts' = [attempts EXCEPT !.made = @ + 1]
          ELSE /\ tasks' = Append(tasks, newTask(cleared, now))
               /\ form' = EmptyForm
               /\ attempts' = [attempts EXCEPT !.made = @ + 1, !.accepted = @ + 1]
    /\ AddPageFrame

----------------------------------------------------------------------------
(* The router and the user store *)

(* the "Add Task" button of Home: Home is unmounted and its state is lost,  *)
(* AddTask is mounted                                                       *)
NavigateToAdd ==
    /\ page = "home"
    /\ page' = "add"
    /\ form' = EmptyForm
    /\ UNCHANGED <<tasks, now, homeVars, userVars, attempts, utcOffset>>

(* back to Home: the screen is mounted anew and every memo is computed *)
NavigateHome ==
    /\ page = "add"
    /\ page' = "home"
    /\ form' = EmptyForm
    /\ filter' = "All"
    /\ customStart' = Absent
    /\ customEnd' = Absent
    /\ filteredTasks' = computeFilteredTasks(tasks, "All", Absent, Absent, now, now)
    /\ filterToday' = startOfDay(At(now))
    /\ filterEndOfWeek' = endOfWeek(At(now))
    /\ taskStats' = computeTaskStats(tasks, now)
    /\ statsToday' = startOfDay(At(now))
    /\ taskCompletionText' =
          computeTaskCompletionText(taskStats'.completedTaskPercentage, Len(tasks))
    /\ mountHour' \in Hours(now)
    /\ timeGreeting' = computeTimeGreeting(mountHour')
    /\ UNCHANGED <<tasks, now, userVars, attempts, utcOffset>>

(* setUser(updateShowProgressBar(., value)) *)
setShowProgressBar(value) ==
    LET user == updateShowProgressBar(User(tasks, settings, profile), value)
    IN /\ tasks' = user.tasks
       /\ settings' = user.settings
       /\ profile' = user.profile

(* the close button of the progress bar: the flag is cleared and the toast  *)
(* with the Undo button is shown                                            *)
HideProgressBar ==
    /\ page = "home"
    /\ Len(tasks) > 0 /\ settings.showProgressBar
    /\ setShowProgressBar(FALSE)
    /\ toast' = TRUE
    /\ UNCHANGED <<now, homeVars, addVars>>

(* the Undo button of the toast, on whichever page the toast is shown *)
UndoHide ==
    /\ toast
    /\ setShowProgressBar(TRUE)
    /\ UNCHANGED <<now, homeVars, toast, addVars>>

(* the toast expires *)
DismissToast ==
    /\ toast
    /\ toast' = FALSE
    /\ UNCHANGED <<tasks, now, homeVars, settings, profile, addVars>>

----------------------------------------------------------------------------
(* The user store under the progress bar toggle, with task creation as the  *)
(* other update of the user.  The screen is mounted at any hour of the day. *)

PlainCollections ==
    {s \in SeqsUpTo([name : 1..MaxTasks, deadline : {Absent}, done : BOOLEAN], MaxTasks) :
        \A i \in 1..Len(s) : s[i].name = i}

PlainNames == {Str(0, 1)}

UserInit ==
    /\ tasks \in PlainCollections
    /\ filter = "All"
    /\ customStart = Absent
    /\ customEnd = Absent
    /\ now \in 0..(TicksPerDay - 1)
    /\ filteredTasks = computeFilteredTasks(tasks, filter, customStart, customEnd, now, now)
    /\ filterToday = startOfDay(At(now))
    /\ filterEndOfWeek = endOfWeek(At(now))
    /\ taskStats = computeTaskStats(tasks, now)
    /\ statsToday = startOfDay(At(now))
    /\ taskCompletionText =
          computeTaskCompletionText(taskStats.completedTaskPercentage, Len(tasks))
    /\ mountHour \in Hours(now)
    /\ timeGreeting = computeTimeGreeting(mountHour)
    /\ settings \in Settings
    /\ profile \in Profiles
    /\ toast = FALSE
    /\ page = "home"
    /\ form = EmptyForm
    /\ attempts = NoAttempts(Len(tasks))
    /\ utcOffset = 0

UserNext ==
    \/ HideProgressBar
    \/ UndoHide
    \/ DismissToast
    \/ NavigateToAdd
    \/ OpenDialog
    \/ \E value \in PlainNames : setName(value)
    \/ handleAddTask
    \/ handleClose
    \/ NavigateHome

UserSpec == UserInit /\ [][UserNext]_vars

C14_ToggleChangesOnlyTheFlag ==
    [][/\ settings' # settings =>
            /\ settings' = [settings EXCEPT !.showProgressBar = ~settings.showProgressBar]
            /\ tasks' = tasks
            /\ profile' = profile
       /\ (settings.showProgressBar /\ ~settings'.showProgressBar) => toast'
       /\ (~settings.showProgressBar /\ settings'.showProgressBar) => toast
       /\ (~toast /\ toast') => ~settings'.showProgressBar
      ]_vars

(* the bar was hidden, a task was added on the AddTask page, and Undo has   *)
(* set the flag again: the added task is still there                        *)
C14_Witness ==
    /\ page = "add" /\ toast /\ settings.showProgressBar /\ ~settings.enableGlow
    /\ attempts.accepted = MaxAttempts
    /\ Len(tasks) = attempts.initial + attempts.accepted

----------------------------------------------------------------------------
(* The completion message over the counts of tasks and of completed tasks:  *)
(* every count of a few tasks, and every percentage of MaxTotal tasks; task *)
(* creation is the update that changes the counts                           *)

Totals == {total \in 0..MaxTotal : total <= MaxTasks + 2 \/ total = MaxTotal}

CountedCollections ==
    {[i \in 1..pair[2] |-> [name |-> i, deadline |-> Absent, done |-> i <= pair[1]]] :
        pair \in {q \in (0..MaxTotal) \X Totals : q[1] <= q[2]}}

TierInit ==
    /\ tasks \in CountedCollections
    /\ filter = "All"
    /\ customStart = Absent
    /\ customEnd = Absent
    /\ now = 0
    /\ filteredTasks = computeFilteredTasks(tasks, filter, customStart, customEnd, now, now)
    /\ filterToday = startOfDay(At(now))
    /\ filterEndOfWeek = endOfWeek(At(now))
    /\ taskStats = computeTaskStats(tasks, now)
    /\ statsToday = startOfDay(At(now))
    /\ taskCompletionText =
          computeTaskCompletionText(taskStats.completedTaskPercentage, Len(tasks))
    /\ mountHour = FirstHour(now)
    /\ timeGreeting = computeTimeGreeting(mountHour)
    /\ settings = FixedSettings
    /\ profile = FixedProfile
    /\ toast = FALSE
    /\ page = "home"
    /\ form = EmptyForm
    /\ attempts = NoAttempts(Len(tasks))
    /\ utcOffset = 0

TierNext ==
    \/ NavigateToAdd
    \/ OpenDialog
    \/ \E value \in PlainNames : setName(value)
    \/ handleAddTask
    \/ handleClose
    \/ NavigateHome

TierSpec == TierInit /\ [][TierNext]_vars

----------------------------------------------------------------------------
(* The AddTask dialog under every kind of input: names that are blank, of   *)
(* the greatest length and too long, descriptions of the greatest length    *)
(* and too long, deadlines before and on the current day, in time zones on  *)
(* both sides of UTC                                                        *)

(* the maxLength of the two text fields limits what is typed into them;    *)
(* onChange hands every value it is given to setName and setDescription,    *)
(* and validateForm tests the lengths for that                              *)
Names == {Str(1, 0), Str(1, MaxNameLength), Str(1, MaxNameLength + 1)}
Descriptions == {Str(0, MaxDescriptionLength), Str(1, MaxDescriptionLength)}
Deadlines == {NoDateString} \cup {DateString(d) : d \in 0..MaxDay}
SomePriorities == {"Medium", "Low"}
Offsets == -(TicksPerDay \div 2)..(TicksPerDay \div 2)

AddInit ==
    /\ tasks \in {s \in PlainCollections : Len(s) <= 1 /\ \A i \in 1..Len(s) : ~s[i].done}
    /\ filter = "All"
    /\ customStart = Absent
    /\ customEnd = Absent
    /\ now \in {t \in Instants : DayOf(t) = MaxDay - 1}
    /\ filteredTasks = computeFilteredTasks(tasks, filter, customStart, customEnd, now, now)
    /\ filterToday = startOfDay(At(now))
    /\ filterEndOfWeek = endOfWeek(At(now))
    /\ taskStats = computeTaskStats(tasks, now)
    /\ statsToday = startOfDay(At(now))
    /\ taskCompletionText =
          computeTaskCompletionText(taskStats.completedTaskPercentage, Len(tasks))
    /\ mountHour = FirstHour(now)
    /\ timeGreeting = computeTimeGreeting(mountHour)
    /\ settings = FixedSettings
    /\ profile = FixedProfile
    /\ toast = FALSE
    /\ page = "home"
    /\ form = EmptyForm
    /\ attempts = NoAttempts(Len(tasks))
    /\ utcOffset \in Offsets

AddNext ==
    \/ NavigateToAdd
    \/ OpenDialog
    \/ \E value \in Names : setName(value)
    \/ \E value \in Descriptions : setDescription(value)
    \/ \E value \in Deadlines : setDeadline(value)
    \/ \E value \in SomePriorities : setPriority(value)
    \/ handleAddTask
    \/ handleClose

AddSpec == AddInit /\ [][AddNext]_vars

(* the checks of the form, in the order of the specification *)
NameIsEmpty == form.name.len = 0
NameIsTooLong == form.name.len > 100
DescriptionIsTooLong == form.description.pad + form.description.len > 500
DeadlineIsBeforeToday == form.deadline.kind = "day" /\ form.deadline.day < DayOf(now)

FormIsInvalid ==
    NameIsEmpty \/ NameIsTooLong \/ DescriptionIsTooLong \/ DeadlineIsBeforeToday

FirstFailingCheck ==
    IF NameIsEmpty THEN "Task name is required"
    ELSE IF NameIsTooLong THEN "Task name must be less than 100 characters"
    ELSE IF DescriptionIsTooLong THEN "Description must be less than 500 characters"
    ELSE "Deadline cannot be in the past"

AddAttempt == attempts'.made = attempts.made + 1

(* C15: an add attempt on an invalid form adds no task, leaves the user as  *)
(* it is, keeps the dialog open with its fields, and shows the one message  *)
(* of the first failing check in the order: name empty after trimming,      *)
(* trimmed name longer than 100, description longer than 500, deadline      *)
(* before today; the message of an earlier attempt is replaced.             *)
C15_InvalidFormIsRejected ==
    [][(AddAttempt /\ FormIsInvalid) =>
            /\ tasks' = tasks
            /\ settings' = settings
            /\ profile' = profile
            /\ form'.open
            /\ form' = [form EXCEPT !.error = FirstFailingCheck]
            /\ attempts'.accepted = attempts.accepted
      ]_vars

(* a blank name and a description that is too long: the name is reported,   *)
(* in place of the message of the attempt before                            *)
C15_Witness ==
    /\ attempts.made = MaxAttempts /\ attempts.accepted = 0
    /\ form.open
    /\ form.name = Str(1, 0)
    /\ length(form.description) > MaxDescriptionLength
    /\ form.error = "Task name is required"

FormIsValid == ~FormIsInvalid

AppendsOneTask ==
    /\ Len(tasks') = Len(tasks) + 1
    /\ SubSeq(tasks', 1, Len(tasks)) = tasks
    /\ LET added == tasks'[Len(tasks')]
       IN /\ added.name = Str(0, form.name.len)
          /\ added.done = FALSE
          /\ added.pinned = FALSE
          /\ added.priority = form.priority
          /\ IF form.deadline.kind = "day"
             THEN added.deadline = At(endOfDay(At(form.deadline.day * TicksPerDay)).t)
             ELSE added.deadline = Absent
    /\ settings' = settings
    /\ profile' = profile
    /\ form' = EmptyForm
    /\ attempts'.accepted = attempts.accepted + 1

(* C16: an add attempt on a valid form appends one task at the end of the   *)
(* tasks (trimmed name, not done, not pinned, the chosen priority, no       *)
(* deadline or the last second of the chosen day), keeps the other tasks    *)
(* and user fields, closes the dialog and resets the form; a form is valid  *)
(* when no check of the specification fails, a deadline on the current day  *)
(* included.                                                                *)
C16_ValidFormAppendsOneTask ==
    [][(AddAttempt /\ FormIsValid) => AppendsOneTask]_vars

(* the same of every form that validateForm accepts, together with the      *)
(* count of the tasks                                                       *)
AcceptedFormAppendsOneTask ==
    [][(AddAttempt /\ validateForm(form, now, utcOffset).valid) => AppendsOneTask]_vars

TaskCountIsInitialPlusAccepted ==
    Len(tasks) = attempts.initial + attempts.accepted

(* C20: the deadline check of AddTask rejects a chosen date exactly when    *)
(* its calendar day is before the current local day, at every local time    *)
(* and UTC offset, and the least date of the date field is the current      *)
(* local day.                                                               *)
C20_DeadlineCheckIsByLocalDay ==
    (page = "add" /\ form.open) =>
        /\ getMinDate = DateString(DayOf(now))
        /\ (/\ form.deadline.kind = "day"
            /\ ~NameIsEmpty /\ ~NameIsTooLong /\ ~DescriptionIsTooLong) =>
              (validateForm(form, now, utcOffset).valid <=> form.deadline.day >= DayOf(now))

----------------------------------------------------------------------------
(* C21: in every state of the Home screen the displayed Today / This Week   *)
(* list, the displayed due-today list and the displayed greeting are those  *)
(* of the current clock, also after the clock has passed midnight or gone   *)
(* into another greeting tier with the tasks, the filter and the custom     *)
(* bounds unchanged.  The memos depend on [filter, tasks, customStart,      *)
(* customEnd], on [tasks] and on [], never on the clock.                    *)
C21_DisplayFollowsTheClock ==
    page = "home" =>
        /\ filter \in {"Today", "This Week"} =>
              filteredTasks =
                  computeFilteredTasks(tasks, filter, customStart, customEnd, now, now)
        /\ taskStats.tasksDueTodayNames = computeTaskStats(tasks, now).tasksDueTodayNames
        /\ taskStats.tasksWithDeadlineTodayCount =
              computeTaskStats(tasks, now).tasksWithDeadlineTodayCount
        /\ \E currentHour \in Hours(now) : timeGreeting = computeTimeGreeting(currentHour)

====
